---------------------------- MODULE Spec2Model ----------------------------
(***************************************************************************)
(* Model of echo.py: echo(args, separator, end) and main().                 *)
(*                                                                         *)
(* Text is a sequence of one-character strings.  A value handed to echo    *)
(* is a Python object: a str, an int or None; print converts it with str.  *)
(* print hands its output to the stream piece by piece (file.write once    *)
(* per value, per separator and for the end string), so the model keeps    *)
(* the list of write calls next to the text they add up to.                *)
(*                                                                         *)
(* sys.stdout is part of the state of a run: it is absent (None) when the  *)
(* process starts with descriptor 1 closed, and otherwise a text stream    *)
(* that is block buffered (file, pipe), line buffered (terminal) or        *)
(* unbuffered (python -u), over a descriptor that accepts writes or        *)
(* rejects them (pipe without a reader, full device).                      *)
(***************************************************************************)
EXTENDS Integers, Sequences, FiniteSets

VARIABLES
    argv,        \* sys.argv[1:] of the run
    stdoutKind,  \* descriptor 1: "ok", "full" (full device), "epipe" (pipe without
                 \* a reader) or "none" (closed at start: sys.stdout is None)
    buffering,   \* "block", "line" or "unbuffered"
    bufsize,     \* size of the stream's byte buffer, 0 when unbuffered
    pc,          \* "start", "ran" (main returned or raised), "exited"
    calls,       \* texts passed to sys.stdout.write by the operation that ran last
    pending,     \* text collected by the stream's text layer
    buffered,    \* text held in the stream's byte buffer
    oswrites,    \* OS-level write attempts on descriptor 1: [data, ok]
    raised,      \* an exception left main
    status,      \* exit status of the process, NoStatus before it exits
    last,        \* inputs, output and ordinal of the latest direct echo call
    ref,         \* a remembered earlier direct echo call
    ncalls       \* number of direct echo calls made so far

vars == <<argv, stdoutKind, buffering, bufsize, pc, calls, pending, buffered,
          oswrites, raised, status, last, ref, ncalls>>

---------------------------------------------------------------------------
(* Bounds of the model.                                                    *)

MaxArgs == 3
MaxCalls == 3

---------------------------------------------------------------------------
(* Text helpers.                                                           *)

SP == " "
NL == "\n"
CR == "\r"

RECURSIVE Concat(_)
Concat(texts) ==
    IF texts = <<>> THEN <<>> ELSE Head(texts) \o Concat(Tail(texts))

RECURSIVE Count(_, _)
Count(ch, text) ==
    IF text = <<>> THEN 0
    ELSE (IF Head(text) = ch THEN 1 ELSE 0) + Count(ch, Tail(text))

Slice(text, from, len) == SubSeq(text, from, from + len - 1)

---------------------------------------------------------------------------
(* Python values and str().                                                *)

S(text) == [t |-> "str", s |-> text]
I(n) == [t |-> "int", n |-> n]
None == [t |-> "None"]

Digit(d) == <<"0", "1", "2", "3", "4", "5", "6", "7", "8", "9">>[d + 1]

RECURSIVE NatStr(_)
NatStr(n) == IF n < 10 THEN <<Digit(n)>> ELSE NatStr(n \div 10) \o <<Digit(n % 10)>>

str(v) ==
    CASE v.t = "str" -> v.s
      [] v.t = "int" -> IF v.n < 0 THEN <<"-">> \o NatStr(-v.n) ELSE NatStr(v.n)
      [] v.t = "None" -> <<"N", "o", "n", "e">>

StrValues(tokens) == [i \in 1..Len(tokens) |-> S(tokens[i])]

---------------------------------------------------------------------------
(* The builtin print, as echo.py uses it: the texts it passes to            *)
(* file.write, in order.                                                   *)

PrintDefaultSep == <<SP>>
PrintDefaultEnd == <<NL>>

RECURSIVE PrintItems(_, _, _)
PrintItems(objects, sep, i) ==
    IF i > Len(objects) THEN <<>>
    ELSE (IF i > 1 THEN <<sep>> ELSE <<>>) \o <<str(objects[i])>>
         \o PrintItems(objects, sep, i + 1)

\* Faulty variants of print: a separator after every value, the whole line
\* as one write call, no separators.
RECURSIVE PrintItemsTrailing(_, _, _)
PrintItemsTrailing(objects, sep, i) ==
    IF i > Len(objects) THEN <<>>
    ELSE <<str(objects[i]), sep>> \o PrintItemsTrailing(objects, sep, i + 1)

print_trailing_sep(objects, sep, end) ==
    PrintItemsTrailing(objects, sep, 1) \o <<end>>

print_joined(objects, sep, end) ==
    <<Concat(PrintItems(objects, sep, 1) \o <<end>>)>>

print_no_sep(objects, sep, end) ==
    [i \in 1..Len(objects) |-> str(objects[i])] \o <<end>>

print(objects, sep, end) == PrintItems(objects, sep, 1) \o <<end>>

---------------------------------------------------------------------------
(* echo.py                                                                 *)

EchoDefaultSeparator == <<SP>>
EchoDefaultEnd == <<NL>>

\* Faulty variants of echo: separator and end exchanged, output depending
\* on the text earlier calls left in the stream.
echo_swapped(args, separator, end) == print(args, end, separator)

echo_stateful(args, separator, end) ==
    IF pending = <<>> THEN print(args, separator, end)
    ELSE <<separator>> \o print(args, separator, end)

echo(args, separator, end) == print(args, separator, end)

\* Faulty variants of main: a leading -n read as a flag, nothing written
\* without arguments, no newline without arguments.
main_flags(args) ==
    IF args = <<>> THEN print(<<>>, PrintDefaultSep, PrintDefaultEnd)
    ELSE IF Head(args) = <<"-", "n">>
         THEN echo(StrValues(Tail(args)), EchoDefaultSeparator, <<>>)
         ELSE echo(StrValues(args), EchoDefaultSeparator, EchoDefaultEnd)

main_silent(args) ==
    IF args = <<>> THEN <<>>
    ELSE echo(StrValues(args), EchoDefaultSeparator, EchoDefaultEnd)

main_bare(args) ==
    IF args = <<>> THEN print(<<>>, PrintDefaultSep, <<>>)
    ELSE echo(StrValues(args), EchoDefaultSeparator, EchoDefaultEnd)

\* The texts main hands to sys.stdout.write: a bare print() when there are
\* no arguments, echo of the arguments otherwise.
main(args) ==
    IF args = <<>> THEN print(<<>>, PrintDefaultSep, PrintDefaultEnd)
    ELSE echo(StrValues(args), EchoDefaultSeparator, EchoDefaultEnd)

---------------------------------------------------------------------------
(* sys.stdout: what print's write calls do to the stream.                  *)
(*                                                                         *)
(* A buffered sys.stdout is a text layer over a byte buffer over the       *)
(* descriptor.  The text layer collects the texts written until they       *)
(* amount to TextChunkSize bytes, or until a text holds a line end on a    *)
(* line-buffered stream, and then hands them to the byte buffer.  The      *)
(* byte buffer holds up to bufsize bytes (the st_blksize of the            *)
(* descriptor); data that does not fit is written to the descriptor.       *)
(* An unbuffered sys.stdout writes every text to the descriptor at once.   *)
(* All characters of the model are one byte long, and a write to the       *)
(* descriptor takes all of its data or fails.                              *)

NoStatus == -1

TextChunkSize == 8192

FreshStream ==
    [calls |-> <<>>, pending |-> <<>>, buffered |-> <<>>, oswrites |-> <<>>,
     raised |-> FALSE]

HasLineEnd(text) == \E i \in 1..Len(text) : text[i] \in {NL, CR}

\* The outcome of write(2) on descriptor 1: a full device rejects every
\* write, a pipe without a reader rejects all but the empty one.
OsWriteOk(kind, data) == kind = "ok" \/ (kind = "epipe" /\ data = <<>>)

\* One write of data to the descriptor; a failed write raises OSError and
\* the data is gone.
RawWrite(st, data, kind) ==
    [st EXCEPT !.oswrites = Append(@, [data |-> data, ok |-> OsWriteOk(kind, data)]),
               !.raised = ~OsWriteOk(kind, data)]

\* The byte buffer writes out what it holds and keeps it when that fails.
BufferFlush(st, kind) ==
    IF st.buffered = <<>> THEN st
    ELSE [st EXCEPT !.oswrites = Append(@, [data |-> st.buffered,
                                            ok |-> OsWriteOk(kind, st.buffered)]),
                    !.buffered = IF OsWriteOk(kind, st.buffered) THEN <<>> ELSE @,
                    !.raised = ~OsWriteOk(kind, st.buffered)]

\* The byte buffer takes data: it keeps data that fits; otherwise it writes
\* out what it holds and then writes data through when it is larger than
\* the buffer, or keeps it.
BufferWrite(st, data, kind, size) ==
    IF Len(data) <= size - Len(st.buffered)
      THEN [st EXCEPT !.buffered = @ \o data]
      ELSE LET f == BufferFlush(st, kind)
           IN IF f.raised THEN f
              ELSE IF Len(data) > size THEN RawWrite(f, data, kind)
              ELSE [f EXCEPT !.buffered = data]

\* The text layer hands what it has collected to the byte buffer; the
\* collected text is dropped before the byte buffer is called.
TextWriteFlush(st, kind, size) ==
    IF st.pending = <<>> THEN st
    ELSE BufferWrite([st EXCEPT !.pending = <<>>], st.pending, kind, size)

\* One file.write(text) on sys.stdout.
FileWrite(st, text, kind, buf, size) ==
    LET c == [st EXCEPT !.calls = Append(@, text)]
        needflush == buf = "line" /\ HasLineEnd(text)
        s1 == IF Len(c.pending) + Len(text) > TextChunkSize
                THEN TextWriteFlush(c, kind, size) ELSE c
        s2 == [s1 EXCEPT !.pending = @ \o text]
        s3 == IF Len(s2.pending) >= TextChunkSize \/ needflush
                THEN TextWriteFlush(s2, kind, size) ELSE s2
    IN IF buf = "unbuffered" THEN RawWrite(c, text, kind)
       ELSE IF s1.raised THEN s1
       ELSE IF s3.raised \/ ~needflush THEN s3
       ELSE BufferFlush(s3, kind)

\* The write calls of one print, in order, stopping at the first that raises.
RECURSIVE WriteAll(_, _, _, _, _)
WriteAll(st, texts, kind, buf, size) ==
    IF texts = <<>> \/ st.raised THEN st
    ELSE WriteAll(FileWrite(st, Head(texts), kind, buf, size), Tail(texts),
                  kind, buf, size)

\* print to sys.stdout, a stream in state st: nothing at all when sys.stdout
\* is None.
PrintToStdout(st, texts, kind, buf, size) ==
    IF kind = "none" THEN st
    ELSE WriteAll(st, texts, kind, buf, size)

\* sys.stdout.flush(): the text layer, then the byte buffer.
StreamFlush(st, kind, size) ==
    LET t == TextWriteFlush([st EXCEPT !.raised = FALSE], kind, size)
    IN IF t.raised THEN t ELSE BufferFlush(t, kind)

\* The text that reached descriptor 1.
Delivered(ws) ==
    Concat([i \in 1..Len(ws) |-> IF ws[i].ok THEN ws[i].data ELSE <<>>])

FailedWrites(ws) == Cardinality({i \in 1..Len(ws) : ~ws[i].ok})

\* The text a stream has taken, wherever it is by now.
StreamText(st) == Delivered(st.oswrites) \o st.buffered \o st.pending

---------------------------------------------------------------------------
(* Inputs.                                                                 *)

Tokens ==
    { <<>>, <<"a">>, <<"b">>, <<"c">>, <<"-", "n">>, <<"-", "e">>,
      <<"a", SP, "b">>, <<"x", NL, "y">>, <<"x", CR, "y">>,
      <<"h", "e", "l", "l", "o">>, <<"w", "o", "r", "l", "d">> }

SeqsUpTo(set, n) == UNION {[1..k -> set] : k \in 0..n}

\* A token of n letters.
Letters(n) == [i \in 1..n |-> "a"]

\* Argument lists whose line reaches the sizes of the stream's buffers.
LongArgvs ==
    { <<Letters(1023)>>, <<Letters(1024)>>,
      <<Letters(4095)>>, <<Letters(4096)>>,
      <<Letters(8190)>>, <<Letters(8191)>>,
      <<Letters(10), Letters(8191)>>,
      <<Letters(4000), Letters(4000), <<"x", NL, "y">>>> }

\* st_blksize of descriptor 1: of a terminal, of a file or pipe.
BlockSizes == {1024, 4096}

StdoutKinds == {"ok", "full", "epipe", "none"}

ArgLists ==
    { <<>>,
      <<S(<<>>)>>,
      <<S(<<"a">>), S(<<"b", SP, NL>>)>>,
      <<I(-10), None, S(<<"c">>)>> }
Separators == { <<>>, <<SP>>, <<",", SP>> }
Terminators == { <<>>, <<NL>>, <<"!">> }

NoCall == [args |-> <<>>, separator |-> <<>>, end |-> <<>>, out |-> <<>>,
     made |-> FALSE, n |-> 0]

---------------------------------------------------------------------------
(* Spec: one run of the program.                                           *)

Init ==
    /\ argv \in SeqsUpTo(Tokens, MaxArgs) \cup LongArgvs
    /\ stdoutKind \in StdoutKinds
    /\ buffering \in {"block", "line", "unbuffered"}
    /\ bufsize \in IF buffering = "unbuffered" THEN {0} ELSE BlockSizes
    /\ pc = "start"
    /\ calls = <<>>
    /\ pending = <<>>
    /\ buffered = <<>>
    /\ oswrites = <<>>
    /\ raised = FALSE
    /\ status = NoStatus
    /\ last = NoCall
    /\ ref = NoCall
    /\ ncalls = 0

\* sys.stdout as the state holds it, before an operation makes its calls.
CurrentStream ==
    [calls |-> <<>>, pending |-> pending, buffered |-> buffered,
     oswrites |-> oswrites, raised |-> FALSE]

RunMain ==
    LET st == PrintToStdout(CurrentStream, main(argv), stdoutKind, buffering,
                            bufsize)
    IN /\ calls' = st.calls
       /\ pending' = st.pending
       /\ buffered' = st.buffered
       /\ oswrites' = st.oswrites
       /\ raised' = st.raised
       /\ pc' = "ran"
       /\ UNCHANGED <<argv, stdoutKind, buffering, bufsize, status, last, ref, ncalls>>

\* main with no arguments: print().
MainNoArgs ==
    /\ pc = "start"
    /\ argv = <<>>
    /\ RunMain

\* main with arguments: echo of the arguments.
MainArgs ==
    /\ pc = "start"
    /\ argv # <<>>
    /\ RunMain

\* The interpreter ends the process.  It flushes sys.stdout when the script
\* is over, ignoring a failure; it flushes it again on finalization, where a
\* failure is reported as an ignored exception and makes the exit status
\* 120; and the text layer and the byte buffer each flush once more when
\* they are closed, again ignoring a failure.  Without a failed flush on
\* finalization the exit status is 1 after an exception out of main and 0
\* otherwise.
Exit ==
    LET flush_io == StreamFlush(CurrentStream, stdoutKind, bufsize)
        flush_std_files == StreamFlush(flush_io, stdoutKind, bufsize)
        close_text == StreamFlush(flush_std_files, stdoutKind, bufsize)
        close_buffer == BufferFlush(close_text, stdoutKind)
    IN /\ pc = "ran"
       /\ pc' = "exited"
       /\ IF stdoutKind = "none" \/ buffering = "unbuffered"
            THEN /\ UNCHANGED <<pending, buffered, oswrites>>
                 /\ status' = IF raised THEN 1 ELSE 0
            ELSE /\ pending' = close_buffer.pending
                 /\ buffered' = close_buffer.buffered
                 /\ oswrites' = close_buffer.oswrites
                 /\ status' = IF flush_std_files.raised THEN 120
                              ELSE IF raised THEN 1 ELSE 0
       /\ UNCHANGED <<argv, stdoutKind, buffering, bufsize, calls, raised, last,
                      ref, ncalls>>

Next == MainNoArgs \/ MainArgs \/ Exit

Spec == Init /\ [][Next]_vars

---------------------------------------------------------------------------
(* SpecFmt: direct calls of echo, one after the other, on the writable     *)
(* block-buffered sys.stdout of one process.  The stream keeps what the    *)
(* calls have written; the output of a call is the text it adds to what    *)
(* the stream has taken.                                                   *)

InitFmt ==
    /\ argv = <<>>
    /\ stdoutKind = "ok"
    /\ buffering = "block"
    /\ bufsize = 4096
    /\ pc = "start"
    /\ calls = <<>>
    /\ pending = <<>>
    /\ buffered = <<>>
    /\ oswrites = <<>>
    /\ raised = FALSE
    /\ status = NoStatus
    /\ last = NoCall
    /\ ref = NoCall
    /\ ncalls = 0

\* The text a call added to a stream that was in state before.
Added(before, after) ==
    SubSeq(StreamText(after), Len(StreamText(before)) + 1, Len(StreamText(after)))

\* One direct call of echo; the first call, made on the fresh stream, is the
\* remembered one.
EchoCall ==
    /\ ncalls < MaxCalls
    /\ \E args \in ArgLists, separator \in Separators, end \in Terminators :
         LET st == PrintToStdout(CurrentStream, echo(args, separator, end),
                                 stdoutKind, buffering, bufsize)
         IN /\ calls' = st.calls
            /\ pending' = st.pending
            /\ buffered' = st.buffered
            /\ oswrites' = st.oswrites
            /\ raised' = st.raised
            /\ last' = [args |-> args, separator |-> separator, end |-> end,
                        out |-> Added(CurrentStream, st), made |-> TRUE,
                        n |-> ncalls + 1]
    /\ ref' = IF ref.made THEN ref ELSE last'
    /\ ncalls' = ncalls + 1
    /\ UNCHANGED <<argv, stdoutKind, buffering, bufsize, pc, status>>

NextFmt == EchoCall

SpecFmt == InitFmt /\ [][NextFmt]_vars

---------------------------------------------------------------------------
(* Claims about one run of the program (Spec).                             *)

RECURSIVE JoinBySpace(_)
JoinBySpace(tokens) ==
    IF Len(tokens) = 1 THEN tokens[1]
    ELSE tokens[1] \o <<SP>> \o JoinBySpace(Tail(tokens))

Hello == <<"h", "e", "l", "l", "o">>
World == <<"w", "o", "r", "l", "d">>

\* C1: with a writable standard output and a non-empty argument list, the
\* text handed to the stream, and the text that has reached standard output
\* when the process has exited, is the tokens in their order joined by one
\* space each and followed by one newline; no token is read as a flag,
\* dropped, reordered or altered (so "hello" gives "hello\n", "hello world"
\* gives "hello world\n" and a, b, c gives "a b c\n").
C1_MainEchoesTokens ==
    (pc # "start" /\ stdoutKind = "ok" /\ argv # <<>>) =>
        /\ Concat(calls) = JoinBySpace(argv) \o <<NL>>
        /\ pc = "exited" => Delivered(oswrites) = JoinBySpace(argv) \o <<NL>>
        /\ argv = <<Hello>> => Concat(calls) = Hello \o <<NL>>
        /\ argv = <<Hello, World>> => Concat(calls) = Hello \o <<SP>> \o World \o <<NL>>
        /\ argv = <<<<"a">>, <<"b">>, <<"c">>>> =>
               Concat(calls) = <<"a", SP, "b", SP, "c", NL>>

C1_Witness ==
    /\ pc = "exited"
    /\ stdoutKind = "ok"
    /\ argv = <<<<"-", "n">>, <<"a", SP, "b">>, <<>>>>
    /\ Delivered(oswrites) = <<"-", "n", SP, "a", SP, "b", SP, NL>>

\* C4: with a writable standard output and an empty argument list, exactly
\* "\n" reaches standard output and the exit status is 0.
C4_NoArgsNewline ==
    (pc = "exited" /\ stdoutKind = "ok" /\ argv = <<>>) =>
        /\ Delivered(oswrites) = <<NL>>
        /\ status = 0

C4_Witness ==
    /\ pc = "exited"
    /\ stdoutKind = "ok"
    /\ argv = <<>>
    /\ Len(oswrites) = 1
    /\ status = 0

\* The whole line of the run reached standard output and no write failed.
WriteSucceeded ==
    /\ FailedWrites(oswrites) = 0
    /\ Delivered(oswrites) = Concat(main(argv))

\* C5: the exit status is 0 if and only if the write to standard output
\* succeeded.
C5_ExitZeroIffWritten ==
    pc = "exited" => (status = 0 <=> WriteSucceeded)

\* C6 as stated: an invocation performs exactly one write operation on the
\* standard output stream, whatever the number of arguments.
C6_SingleWrite ==
    (pc # "start" /\ stdoutKind = "ok") =>
        /\ Len(calls) = 1
        /\ pc = "exited" => Len(oswrites) = 1

\* The i-th write call of a run with the given tokens.
Piece(tokens, i) ==
    IF tokens = <<>> \/ i = 2 * Len(tokens) THEN <<NL>>
    ELSE IF i % 2 = 1 THEN tokens[(i + 1) \div 2] ELSE <<SP>>

NPieces(tokens) == IF tokens = <<>> THEN 1 ELSE 2 * Len(tokens)

\* C6 amended: an invocation hands its output to the standard output stream
\* as one write call per value, per separator and for the newline, in that
\* order: 2n calls for n >= 1 arguments and one call for none.  The calls
\* stop at the first one that raises, and none is made when the process has
\* no standard output stream.
C6_OneWritePerPiece ==
    pc # "start" =>
        /\ stdoutKind = "none" => calls = <<>>
        /\ (stdoutKind # "none" /\ ~raised) => Len(calls) = NPieces(argv)
        /\ raised => (Len(calls) >= 1 /\ Len(calls) <= NPieces(argv))
        /\ \A i \in 1..Len(calls) : calls[i] = Piece(argv, i)

C6_Witness ==
    /\ pc = "exited"
    /\ stdoutKind = "ok"
    /\ argv = <<<<"a">>, <<"b">>, <<"c">>>>
    /\ calls = <<<<"a">>, <<SP>>, <<"b">>, <<SP>>, <<"c">>, <<NL>>>>

\* C7: when standard output is closed or rejects the write, the failure
\* surfaces as an error out of main, the failed write is not attempted
\* again, and the exit status is not 0.
C7_FailureSurfaces ==
    (pc = "exited" /\ stdoutKind # "ok") =>
        /\ status # 0
        /\ raised
        /\ FailedWrites(oswrites) <= 1

\* C10: the two branches of main agree: for every argument list, empty or
\* not, what main does to standard output is what echo called with the
\* arguments and separator " " and end "\n" does.
C10_BranchesAgree ==
    pc # "start" =>
        LET st == PrintToStdout(FreshStream, echo(StrValues(argv), <<SP>>, <<NL>>),
                                stdoutKind, buffering, bufsize)
        IN /\ calls = st.calls
           /\ raised = st.raised
           /\ pc = "ran" => /\ pending = st.pending
                            /\ buffered = st.buffered
                            /\ oswrites = st.oswrites
           /\ (pc = "exited" /\ stdoutKind = "ok") =>
                  Delivered(oswrites) = Concat(echo(StrValues(argv), <<SP>>, <<NL>>))

C10_Witness ==
    /\ pc = "exited"
    /\ stdoutKind = "ok"
    /\ argv = <<>>
    /\ calls = <<<<NL>>>>
    /\ Delivered(oswrites) = <<NL>>

---------------------------------------------------------------------------
(* Claims about echo called directly (SpecFmt).                            *)

RECURSIVE Offset(_, _, _)
Offset(args, sep, i) ==
    IF i = 1 THEN 0
    ELSE Offset(args, sep, i - 1) + Len(str(args[i - 1])) + Len(sep)

RECURSIVE CountIn(_, _)
CountIn(ch, args) ==
    IF args = <<>> THEN 0
    ELSE Count(ch, str(Head(args))) + CountIn(ch, Tail(args))

AllStrings(args) == \A i \in 1..Len(args) : args[i].t = "str"

\* C2: the output of a call is the string form of each value in order, the
\* separator between each two consecutive values and nowhere else, and the
\* terminator once at the end.
C2_EchoLayout ==
    last.made =>
        LET a == last.args
            n == Len(a)
            out == last.out
            body == IF n = 0 THEN 0
                    ELSE Offset(a, last.separator, n) + Len(str(a[n]))
        IN /\ out = Concat(calls)
           /\ Len(out) = body + Len(last.end)
           /\ \A i \in 1..n :
                  Slice(out, Offset(a, last.separator, i) + 1, Len(str(a[i])))
                      = str(a[i])
           /\ \A i \in 1..(n - 1) :
                  Slice(out, Offset(a, last.separator, i) + Len(str(a[i])) + 1,
                        Len(last.separator)) = last.separator
           /\ Slice(out, body + 1, Len(last.end)) = last.end

C2_Witness ==
    /\ last.made
    /\ last.args = <<I(-10), None, S(<<"c">>)>>
    /\ last.separator = <<",", SP>>
    /\ last.end = <<"!">>
    /\ last.out = <<"-", "1", "0", ",", SP, "N", "o", "n", "e", ",", SP, "c", "!">>
    /\ Len(pending) > Len(last.out)

\* C3: a call with no values emits the terminator and nothing else, for
\* every separator and terminator.
C3_EmptyValues ==
    (last.made /\ last.args = <<>>) =>
        /\ last.out = last.end
        /\ calls = <<last.end>>

C3_Witness ==
    /\ last.made
    /\ last.args = <<>>
    /\ last.separator = <<",", SP>>
    /\ last.end = <<>>
    /\ last.out = <<>>
    /\ calls = <<<<>>>>
    /\ pending # <<>>

FormatDefault ==
    /\ last.made
    /\ last.separator = <<SP>>
    /\ last.end = <<NL>>
    /\ last.args # <<>>
    /\ AllStrings(last.args)

\* C8 as stated: for a non-empty sequence S of strings, the output of
\* format(S, " ", "\n") holds exactly len(S) - 1 spaces and exactly one
\* newline, which is its last character.
C8_SeparatorCount ==
    FormatDefault =>
        /\ Count(SP, last.out) = Len(last.args) - 1
        /\ Count(NL, last.out) = 1
        /\ last.out[Len(last.out)] = NL

\* C8 amended: for a non-empty sequence S of strings, the output of
\* format(S, " ", "\n") holds exactly len(S) - 1 spaces more than the
\* elements of S hold, and exactly one newline more than they hold, and
\* its last character is a newline.
C8_SeparatorCountBeyondElements ==
    FormatDefault =>
        /\ Count(SP, last.out) = Len(last.args) - 1 + CountIn(SP, last.args)
        /\ Count(NL, last.out) = 1 + CountIn(NL, last.args)
        /\ last.out[Len(last.out)] = NL

C8_Witness ==
    /\ FormatDefault
    /\ last.args = <<S(<<"a">>), S(<<"b", SP, NL>>)>>
    /\ Count(SP, last.out) = 2
    /\ Count(NL, last.out) = 2
    /\ Len(pending) > Len(last.out)

SameInputs(c, d) ==
    /\ c.args = d.args
    /\ c.separator = d.separator
    /\ c.end = d.end

\* C9: two calls with identical values, separator and terminator emit
\* identical output, whatever calls were made before or between them.
C9_SameInputsSameOutput ==
    (ref.made /\ last.made /\ SameInputs(ref, last)) => ref.out = last.out

C9_Witness ==
    /\ ref.n = 1
    /\ last.n = 3
    /\ SameInputs(ref, last)
    /\ last.args = <<I(-10), None, S(<<"c">>)>>
    /\ last.separator = <<SP>>
    /\ last.end = <<NL>>
    /\ last.out = ref.out
    /\ Len(last.out) = 11
    /\ Len(pending) > Len(ref.out) + Len(last.out)
    /\ SubSeq(pending, 1, 11) = ref.out

===========================================================================
